---- MODULE Spec2Model ----
(***************************************************************************)
(* A model of file_ops.py: the CSV writer, the CSV loader, the file        *)
(* enumerator, the (year, month) partitioner and the pipeline driver.      *)
(*                                                                         *)
(* A DataFrame is a record [cols, rows]: cols is the sequence of column    *)
(* names and rows a sequence of functions from column name to cell.  A     *)
(* CSV file is a sequence of lines, a line a sequence of fields and a      *)
(* field the sequence of the '-'-separated tokens of its text, so that     *)
(* "2023-01-05" is <<"2023", "01", "05">> and the empty field is <<>>.     *)
(*                                                                         *)
(* The output directory exists and a destination path is either absent or  *)
(* a regular file, so that the writes themselves do not raise; each call   *)
(* of a function is one step, and what it raised is recorded in err.       *)
(***************************************************************************)
EXTENDS Integers, Sequences, FiniteSets, TLC

VARIABLES
    fs,         \* the output area of the filesystem: path -> lines of the file
    indir,      \* the input directory: [exists, entries], entries in listing order
    df,         \* the caller's DataFrame
    file_paths, \* the value last returned by get_file_paths
    op,         \* the function the caller called last
    args,       \* the arguments of that call
    err,        \* the exception that call raised, "none" when it returned normally
    written,    \* the paths that call opened for writing
    stage,      \* the last stage a run of main entered
    pre_fs,     \* fs as it was when that call started
    pre_df,     \* df as it was when that call started
    ncalls      \* the number of calls made so far

vars == <<fs, indir, df, file_paths, op, args, err, written, stage, pre_fs, pre_df, ncalls>>

-----------------------------------------------------------------------------
(* Bounds *)

MaxRows == 2
MaxCalls == 2
MaxFiles == 2

-----------------------------------------------------------------------------
(* Cells *)

Str(txt) == [kind |-> "str", n |-> 0, txt |-> txt]
IntCell(n) == [kind |-> "int", n |-> n, txt |-> <<>>]
FloatCell(n) == [kind |-> "float", n |-> n, txt |-> <<>>]
NaN == [kind |-> "nan", n |-> 0, txt |-> <<>>]

\* The numeric tokens the model's texts are built from, and their values.
Num == ("2023" :> 2023) @@ ("2024" :> 2024) @@ ("01" :> 1) @@ ("02" :> 2)
       @@ ("05" :> 5) @@ ("10" :> 10) @@ ("20" :> 20) @@ ("7" :> 7)

Pad2(n) == IF n < 10 THEN "0" \o ToString(n) ELSE ToString(n)

\* str(value), as to_csv and an f-string without a format width render it.
Render(c) ==
    CASE c.kind = "str" -> c.txt
      [] c.kind = "int" -> <<ToString(c.n)>>
      [] c.kind = "float" -> <<ToString(c.n) \o ".0">>
      [] OTHER -> <<>>

\* == on two cells of a Series: NaN equals nothing, an int equals the float
\* of the same value.
CellEq(a, b) ==
    /\ a.kind # "nan"
    /\ b.kind # "nan"
    /\ IF a.kind = "str" \/ b.kind = "str"
       THEN a.kind = b.kind /\ a.txt = b.txt
       ELSE a.n = b.n

-----------------------------------------------------------------------------
(* CSV text *)

HeaderLine(cols) == [j \in 1..Len(cols) |-> <<cols[j]>>]

RowLine(row, cols) == [j \in 1..Len(cols) |-> Render(row[cols[j]])]

\* DataFrame.to_csv(index=False, columns=cols, header=header): the lines it emits.
ToCsvLines(d, cols, header) ==
    (IF header THEN <<HeaderLine(cols)>> ELSE <<>>)
        \o [i \in 1..Len(d.rows) |-> RowLine(d.rows[i], cols)]

\* open(path, 'a') and write: after whatever the file already holds.
WriteAppend(files, path, lines) ==
    [p \in DOMAIN files \cup {path} |->
        IF p = path
        THEN (IF path \in DOMAIN files THEN files[path] ELSE <<>>) \o lines
        ELSE files[p]]

\* open(path, 'w') and write: the file is truncated first.
WriteTruncate(files, path, lines) ==
    [p \in DOMAIN files \cup {path} |-> IF p = path THEN lines ELSE files[p]]

-----------------------------------------------------------------------------
(* create_csv_from_dataframe *)

\* The destination is left in place, so that the write appends to it.
KeepDestination(files, out_file) == files

\* if os.path.isfile(out_file): os.remove(out_file)
RemoveDestination(files, out_file) ==
    IF out_file \in DOMAIN files
    THEN [p \in DOMAIN files \ {out_file} |-> files[p]]
    ELSE files

\* sum(1 for line in csv_reader) - 1
CsvRowCount(lines) == Len(lines) - 1

create_csv_from_dataframe(files, d, out_file, header) ==
    LET df_row_count == Len(d.rows)
        removed == RemoveDestination(files, out_file)
        after == WriteAppend(removed, out_file, ToCsvLines(d, d.cols, header))
        csv_row_count == CsvRowCount(after[out_file])
    IN  [fs |-> after,
         df |-> d,
         written |-> {out_file},
         err |-> IF df_row_count = csv_row_count THEN "none" ELSE "AssertionError"]

-----------------------------------------------------------------------------
(* create_partitioned_csvs_from_dataframe *)

IsDateText(txt) ==
    /\ Len(txt) = 3
    /\ \A k \in 1..3 : txt[k] \in DOMAIN Num
    /\ Num[txt[2]] \in 1..12
    /\ Num[txt[3]] \in 1..31

\* As ToDatetime, but with errors='coerce': a text that is no date becomes NaT.
ToDatetimeCoerce(c) ==
    CASE c.kind \in {"int", "float"} ->
            [raised |-> FALSE, nat |-> FALSE, year |-> 1970, month |-> 1]
      [] c.kind = "str" /\ IsDateText(c.txt) ->
            [raised |-> FALSE, nat |-> FALSE,
             year |-> Num[c.txt[1]], month |-> Num[c.txt[2]]]
      [] OTHER -> [raised |-> FALSE, nat |-> TRUE, year |-> 0, month |-> 0]

\* One element of pd.DatetimeIndex(series): a date text parses to its date, a
\* missing value becomes NaT, a number is a count of nanoseconds after the
\* epoch, and any other text raises.
ToDatetime(c) ==
    CASE c.kind = "nan" -> [raised |-> FALSE, nat |-> TRUE, year |-> 0, month |-> 0]
      [] c.kind \in {"int", "float"} ->
            [raised |-> FALSE, nat |-> FALSE, year |-> 1970, month |-> 1]
      [] c.kind = "str" /\ IsDateText(c.txt) ->
            [raised |-> FALSE, nat |-> FALSE,
             year |-> Num[c.txt[1]], month |-> Num[c.txt[2]]]
      [] OTHER -> [raised |-> TRUE, nat |-> FALSE, year |-> 0, month |-> 0]

\* DatetimeIndex(...).year or .month as a column: int64, or float64 with NaN
\* as soon as one element is NaT.
FieldColumn(stamps, field) ==
    LET anyNaT == \E i \in 1..Len(stamps) : stamps[i].nat
    IN  [i \in 1..Len(stamps) |->
            IF stamps[i].nat THEN NaN
            ELSE IF anyNaT THEN FloatCell(stamps[i][field])
            ELSE IntCell(stamps[i][field])]

\* df[name] = values
SetColumn(d, name, values) ==
    [cols |-> IF \E j \in 1..Len(d.cols) : d.cols[j] = name
              THEN d.cols ELSE Append(d.cols, name),
     rows |-> [i \in 1..Len(d.rows) |->
                 [c \in DOMAIN d.rows[i] \cup {name} |->
                    IF c = name THEN values[i] ELSE d.rows[i][c]]]]

HasColumn(d, name) == \E j \in 1..Len(d.cols) : d.cols[j] = name

Stamps(d, time_dimension) ==
    [i \in 1..Len(d.rows) |-> ToDatetime(d.rows[i][time_dimension])]

\* f'{year}' and f'{month:02}'
YearText(c) ==
    CASE c.kind = "int" -> ToString(c.n)
      [] c.kind = "float" -> ToString(c.n) \o ".0"
      [] OTHER -> "nan"

MonthText(c) ==
    CASE c.kind = "int" -> Pad2(c.n)
      [] c.kind = "float" -> ToString(c.n) \o ".0"
      [] OTHER -> "nan"

\* f'{output_path}/{filename}_{year}_{month:02}.csv'
OutFile(output_path, filename, year, month) ==
    output_path \o "/" \o filename \o "_" \o YearText(year) \o "_" \o MonthText(month) \o ".csv"

\* df.loc[(df['year'] == year) & (df['month'] == month)]
Select(d, year, month) ==
    [cols |-> d.cols,
     rows |-> SelectSeq(d.rows,
                 LAMBDA r : CellEq(r["year"], year) /\ CellEq(r["month"], month))]

\* set(df[name])
Distinct(d, name) == {d.rows[i][name] : i \in 1..Len(d.rows)}

\* Only the pairs some row has.
IteratedObserved(d) == {<<d.rows[i]["year"], d.rows[i]["month"]>> : i \in 1..Len(d.rows)}

\* The pairs the two nested loops visit.
Iterated(d) == Distinct(d, "year") \X Distinct(d, "month")

RECURSIVE WritePartitions(_, _, _, _, _, _)
WritePartitions(files, d, cols, output_path, filename, pairs) ==
    IF pairs = {} THEN files
    ELSE LET p == CHOOSE q \in pairs : TRUE
             outfile == OutFile(output_path, filename, p[1], p[2])
         IN  WritePartitions(
                 WriteTruncate(files, outfile,
                     ToCsvLines(Select(d, p[1], p[2]), cols, TRUE)),
                 d, cols, output_path, filename, pairs \ {p})

create_partitioned_csvs_from_dataframe(files, d, output_path, filename, time_dimension) ==
    LET cols == d.cols
    IN  IF ~HasColumn(d, time_dimension)
        THEN [fs |-> files, df |-> d, written |-> {}, err |-> "KeyError"]
        ELSE IF \E i \in 1..Len(d.rows) : Stamps(d, time_dimension)[i].raised
        THEN [fs |-> files, df |-> d, written |-> {}, err |-> "ParseError"]
        ELSE LET df1 == SetColumn(d, "year",
                            FieldColumn(Stamps(d, time_dimension), "year"))
                 df2 == SetColumn(df1, "month",
                            FieldColumn(Stamps(df1, time_dimension), "month"))
             IN  [fs |-> WritePartitions(files, df2, cols, output_path, filename,
                                         Iterated(df2)),
                  df |-> df2,
                  written |-> {OutFile(output_path, filename, p[1], p[2]) :
                                  p \in Iterated(df2)},
                  err |-> "none"]

-----------------------------------------------------------------------------
(* get_file_paths *)

IsPrefix(s, t) == Len(s) <= Len(t) /\ SubSeq(t, 1, Len(s)) = s

\* fnmatch(name, f'{filter_pattern}*.csv')
Matches(name, filter_pattern) ==
    name.ext = ".csv" /\ IsPrefix(filter_pattern, name.stem)

\* glob.glob(os.path.join(root, pattern)), in the order the directory lists
Glob(dir, filter_pattern) ==
    LET hits == SelectSeq(dir.entries, LAMBDA e : Matches(e.name, filter_pattern))
    IN  [k \in 1..Len(hits) |-> hits[k].name]

\* os.walk yields nothing for a directory that does not exist, so the body of
\* the loop and its return are never reached and the function returns None.
get_file_paths(dir, filter_pattern) ==
    IF dir.exists
    THEN [none |-> FALSE, paths |-> Glob(dir, filter_pattern)]
    ELSE [none |-> TRUE, paths |-> <<>>]

-----------------------------------------------------------------------------
(* create_dataframe_from_csv *)

IsNumber(f) == Len(f) = 1 /\ f[1] \in DOMAIN Num

\* The dtype pd.read_csv infers for a column, applied to one of its fields:
\* a column of numbers is int64, or float64 when a field is empty; any other
\* column keeps its texts, an empty field being NaN in every case.
ReadField(f, column) ==
    IF f = <<>> THEN NaN
    ELSE IF \A k \in 1..Len(column) : column[k] = <<>> \/ IsNumber(column[k])
    THEN (IF \E k \in 1..Len(column) : column[k] = <<>>
          THEN FloatCell(Num[f[1]]) ELSE IntCell(Num[f[1]]))
    ELSE Str(f)

FileLines(dir, path) ==
    LET e == CHOOSE x \in {dir.entries[k] : k \in 1..Len(dir.entries)} : x.name = path
    IN  e.lines

\* pd.read_csv(csv_file, header=0, skip_blank_lines=True, encoding='utf8')
read_csv(lines) ==
    LET text == SelectSeq(lines, LAMBDA l : l # <<>>)
        cols == [j \in 1..Len(text[1]) |-> text[1][j][1]]
        body == Tail(text)
        column(j) == [i \in 1..Len(body) |-> body[i][j]]
        index(name) == CHOOSE j \in 1..Len(cols) : cols[j] = name
    IN  [cols |-> cols,
         rows |-> [i \in 1..Len(body) |->
                     [c \in {cols[j] : j \in 1..Len(cols)} |->
                         ReadField(body[i][index(c)], column(index(c)))]]]

IsEmptyData(lines) == SelectSeq(lines, LAMBDA l : l # <<>>) = <<>>

RECURSIVE ConcatRows(_)
ConcatRows(frames) ==
    IF frames = <<>> THEN <<>> ELSE Head(frames).rows \o ConcatRows(Tail(frames))

EmptyFrame == [cols |-> <<>>, rows |-> <<>>]

\* As concat, but an empty table for no frame at all.
ConcatLenient(frames) ==
    [raised |-> FALSE,
     df |-> IF frames = <<>> THEN EmptyFrame
            ELSE [cols |-> frames[1].cols, rows |-> ConcatRows(frames)]]

\* pd.concat(frames, ignore_index=True) of frames that share their columns;
\* it raises ValueError when there is no frame to concatenate.
concat(frames) ==
    IF frames = <<>>
    THEN [raised |-> TRUE, df |-> EmptyFrame]
    ELSE [raised |-> FALSE,
          df |-> [cols |-> frames[1].cols, rows |-> ConcatRows(frames)]]

create_dataframe_from_csv(dir, paths) ==
    IF paths.none
    THEN [df |-> EmptyFrame, err |-> "TypeError"]
    ELSE IF \E k \in 1..Len(paths.paths) : IsEmptyData(FileLines(dir, paths.paths[k]))
    THEN [df |-> EmptyFrame, err |-> "EmptyDataError"]
    ELSE LET frames == [k \in 1..Len(paths.paths) |->
                           read_csv(FileLines(dir, paths.paths[k]))]
             joined == concat(frames)
         IN  IF joined.raised
             THEN [df |-> EmptyFrame, err |-> "ValueError"]
             ELSE [df |-> joined.df, err |-> "none"]

-----------------------------------------------------------------------------
(* main *)

main(dir, files, filter_pattern, time_dimension, output_path, filename) ==
    LET paths == get_file_paths(dir, filter_pattern)
        loaded == create_dataframe_from_csv(dir, paths)
        parted == create_partitioned_csvs_from_dataframe(
                      files, loaded.df, output_path, filename, time_dimension)
    IN  IF paths.none
        THEN [fs |-> files, written |-> {}, err |-> "TypeError", stage |-> "enumerate"]
        ELSE IF loaded.err # "none"
        THEN [fs |-> files, written |-> {}, err |-> loaded.err, stage |-> "load"]
        ELSE [fs |-> parted.fs, written |-> parted.written, err |-> parted.err,
              stage |-> "partition"]

-----------------------------------------------------------------------------
(* The tables and filesystems a run starts from *)

OutputPath == "out"
Filename == "tx"

DateCells ==
    {Str(<<"2023", "01", "05">>), Str(<<"2023", "02", "10">>),
     Str(<<"2024", "01", "20">>), NaN, Str(<<"not", "a", "date">>)}

OtherColumns == {"amt", "year", "month"}

RowsOf(other) == [{"date", other} -> DateCells \cup {IntCell(7)}]

TableRows(other) ==
    {r \in RowsOf(other) : r["date"] \in DateCells /\ r[other] = IntCell(7)}

Tables ==
    UNION {UNION {{[cols |-> <<"date", other>>, rows |-> rs] :
                      rs \in [1..n -> TableRows(other)]} : n \in 0..MaxRows} :
           other \in OtherColumns}

NoFiles == [p \in {} |-> <<>>]

StaleLines == <<HeaderLine(<<"old">>), <<<<"stale">>>>, <<<<"stale">>>> >>

InitFs ==
    {NoFiles,
     [p \in {"out/tx.csv"} |-> StaleLines],
     [p \in {"out/tx_2023_01.csv"} |-> StaleLines]}

OutFiles == {"out/tx.csv", "out/tx_2023_01.csv"}

TimeDimensions == {"date", "year"}

NoArgs == [out_file |-> "", header |-> TRUE, time_dimension |-> "", filter_pattern |-> <<>>]

NoDir == [exists |-> FALSE, entries |-> <<>>]

NoPaths == [none |-> FALSE, paths |-> <<>>]

Init ==
    /\ fs \in InitFs
    /\ df \in Tables
    /\ indir = NoDir
    /\ file_paths = NoPaths
    /\ op = "none"
    /\ args = NoArgs
    /\ err = "none"
    /\ written = {}
    /\ stage = "none"
    /\ pre_fs = fs
    /\ pre_df = df
    /\ ncalls = 0

Called(name, a, r) ==
    /\ ncalls < MaxCalls
    /\ ncalls' = ncalls + 1
    /\ op' = name
    /\ args' = a
    /\ pre_fs' = fs
    /\ pre_df' = df
    /\ fs' = r.fs
    /\ df' = r.df
    /\ err' = r.err
    /\ written' = r.written

CallCreateCsv ==
    \E out_file \in OutFiles, header \in BOOLEAN :
        /\ Called("create_csv_from_dataframe",
                  [NoArgs EXCEPT !.out_file = out_file, !.header = header],
                  create_csv_from_dataframe(fs, df, out_file, header))
        /\ UNCHANGED <<indir, file_paths, stage>>

CallPartition ==
    \E time_dimension \in TimeDimensions :
        /\ Called("create_partitioned_csvs_from_dataframe",
                  [NoArgs EXCEPT !.time_dimension = time_dimension],
                  create_partitioned_csvs_from_dataframe(
                      fs, df, OutputPath, Filename, time_dimension))
        /\ UNCHANGED <<indir, file_paths, stage>>

Next == CallCreateCsv \/ CallPartition

Spec == Init /\ [][Next]_vars

-----------------------------------------------------------------------------
(* The pipeline: the input directories a run of main starts from *)

Names ==
    {[stem |-> <<"a", "b">>, ext |-> ".csv"], [stem |-> <<"b">>, ext |-> ".csv"],
     [stem |-> <<"a">>, ext |-> ".txt"]}

FilterPatterns == {<<"a">>, <<"b">>}

InputHeader == HeaderLine(<<"date", "amt">>)

InputContents ==
    {<<InputHeader, <<<<"2023", "01", "05">>, <<"7">>>>, <<>>,
                    <<<<"2024", "02", "10">>, <<"7">>>> >>,
     <<InputHeader, <<<<"2023", "02", "10">>, <<"7">>>> >>,
     <<InputHeader, <<<<>>, <<"7">>>> >>,
     <<InputHeader, <<<<"not", "a", "date">>, <<"7">>>> >>,
     <<>>}

Entries == [name : Names, lines : InputContents]

Listings ==
    UNION {{l \in [1..n -> Entries] :
               \A i, j \in 1..n : i # j => l[i].name # l[j].name} : n \in 0..MaxFiles}

InDirs == {NoDir} \cup {[exists |-> TRUE, entries |-> l] : l \in Listings}

InitMain ==
    /\ fs = NoFiles
    /\ df = EmptyFrame
    /\ indir \in InDirs
    /\ file_paths = NoPaths
    /\ op = "none"
    /\ args = NoArgs
    /\ err = "none"
    /\ written = {}
    /\ stage = "none"
    /\ pre_fs = fs
    /\ pre_df = df
    /\ ncalls = 0

CallGetFilePaths ==
    \E filter_pattern \in FilterPatterns :
        /\ Called("get_file_paths",
                  [NoArgs EXCEPT !.filter_pattern = filter_pattern],
                  [fs |-> fs, df |-> df, written |-> {}, err |-> "none"])
        /\ file_paths' = get_file_paths(indir, filter_pattern)
        /\ UNCHANGED <<indir, stage>>

CallCreateDataframe ==
    LET r == create_dataframe_from_csv(indir, file_paths)
    IN  /\ Called("create_dataframe_from_csv", NoArgs,
                  [fs |-> fs, df |-> IF r.err = "none" THEN r.df ELSE df,
                   written |-> {}, err |-> r.err])
        /\ UNCHANGED <<indir, file_paths, stage>>

CallMain ==
    \E filter_pattern \in FilterPatterns, time_dimension \in TimeDimensions :
        LET r == main(indir, fs, filter_pattern, time_dimension, OutputPath, Filename)
        IN  /\ Called("main",
                      [NoArgs EXCEPT !.filter_pattern = filter_pattern,
                                     !.time_dimension = time_dimension],
                      [fs |-> r.fs, df |-> df, written |-> r.written, err |-> r.err])
            /\ stage' = r.stage
            /\ UNCHANGED <<indir, file_paths>>

NextMain == CallGetFilePaths \/ CallCreateDataframe \/ CallMain

SpecMain == InitMain /\ [][NextMain]_vars

-----------------------------------------------------------------------------
(* Properties *)

IsWriterCall == op = "create_csv_from_dataframe"
IsPartitionCall == op = "create_partitioned_csvs_from_dataframe"

\* The file the partitioner names for the (year, month) it derived for row i.
FileOfRow(i) == OutFile(OutputPath, Filename, df.rows[i]["year"], df.rows[i]["month"])

\* The columns of the table passed in that carry no derived attribute.
PlainColumns == {j \in 1..Len(pre_df.cols) : pre_df.cols[j] \notin {"year", "month"}}

RowText(r) == [j \in PlainColumns |-> Render(r[pre_df.cols[j]])]
LineText(l) == [j \in PlainColumns |-> l[j]]

\* How often the row r of the table passed in occurs among the data lines of f.
Occurrences(f, r) ==
    Cardinality({k \in 2..Len(fs[f]) : LineText(fs[f][k]) = RowText(r)})

\* How often it occurs in the table passed in.
Multiplicity(r) ==
    Cardinality({i \in 1..Len(pre_df.rows) : RowText(pre_df.rows[i]) = RowText(r)})

\* C1: after a partition call that completes, every row of the table passed
\* in is in the file named for its derived (year, month), as often as it is
\* in the table, and in no other file the call wrote.
C1_EveryRowInExactlyOneFile ==
    (IsPartitionCall /\ err = "none") =>
        \A i \in 1..Len(pre_df.rows) :
            /\ FileOfRow(i) \in written
            /\ Occurrences(FileOfRow(i), pre_df.rows[i]) = Multiplicity(pre_df.rows[i])
            /\ \A g \in written \ {FileOfRow(i)} : Occurrences(g, pre_df.rows[i]) = 0

\* The data rows of the destination: its lines less the header line, if one
\* was asked for.
DataRowCount ==
    Len(fs[args.out_file]) - (IF args.header THEN 1 ELSE 0)

\* C2: for either value of the header flag the writer returns normally and
\* the destination holds as many data rows as the table has rows.
C2_WriterReturnsWithEqualCounts ==
    IsWriterCall =>
        /\ DataRowCount = Len(pre_df.rows)
        /\ err = "none"

IsDateCell(c) == c.kind = "str" /\ IsDateText(c.txt)

\* The (year, month) pairs some row of the table passed in has.
ObservedPairs ==
    {<<ToDatetime(pre_df.rows[i][args.time_dimension]).year,
       ToDatetime(pre_df.rows[i][args.time_dimension]).month>> :
        i \in 1..Len(pre_df.rows)}

\* C3: on a table whose every date value is a date, the partitioner writes
\* one file per (year, month) pair some row has, each with at least one data
\* row.
C3_OneFilePerObservedPair ==
    (/\ IsPartitionCall
     /\ err = "none"
     /\ \A i \in 1..Len(pre_df.rows) : IsDateCell(pre_df.rows[i][args.time_dimension]))
    => /\ Cardinality(written) = Cardinality(ObservedPairs)
       /\ \A f \in written : Len(fs[f]) >= 2

\* C4: a writer call leaves in the destination the text of the table under
\* the header flag and nothing else, whatever the destination held, and
\* changes no other file; repeating the call just made changes nothing.
C4_WriterReplacesAndIsIdempotent ==
    [][(op' = "create_csv_from_dataframe" /\ ncalls' = ncalls + 1) =>
          /\ fs'[args'.out_file] = ToCsvLines(df, df.cols, args'.header)
          /\ DOMAIN fs' = DOMAIN fs \cup {args'.out_file}
          /\ \A p \in DOMAIN fs \ {args'.out_file} : fs'[p] = fs[p]
          /\ (IsWriterCall /\ args' = args /\ pre_df = df) => fs' = fs]_vars

\* A second, identical writer call over the file the first one left.
C4_Witness ==
    /\ IsWriterCall
    /\ ncalls = 2
    /\ Len(df.rows) >= 1
    /\ args.out_file \in DOMAIN pre_fs
    /\ pre_fs[args.out_file] = fs[args.out_file]

\* A text that is no date.
Unparseable(c) == c.kind = "str" /\ ~IsDateText(c.txt)

\* C5: a partition call on a table that lacks the date column, or that has a
\* value in it that is no date, fails and leaves every file as it was.
C5_FailedPartitionWritesNothing ==
    (/\ IsPartitionCall
     /\ \/ ~HasColumn(pre_df, args.time_dimension)
        \/ \E i \in 1..Len(pre_df.rows) :
              Unparseable(pre_df.rows[i][args.time_dimension]))
    => /\ err # "none"
       /\ written = {}
       /\ fs = pre_fs

\* The bad value comes after a row that parses.
C5_Witness ==
    /\ IsPartitionCall
    /\ err = "ParseError"
    /\ Len(pre_df.rows) >= 2
    /\ IsDateCell(pre_df.rows[1][args.time_dimension])
    /\ Unparseable(pre_df.rows[2][args.time_dimension])
    /\ fs = pre_fs

NoMatch(filter_pattern) ==
    \A k \in 1..Len(indir.entries) : ~Matches(indir.entries[k].name, filter_pattern)

\* C6: the loader fails on the empty list of paths, and a run of main over a
\* directory in which nothing matches the filter fails before the partition
\* stage and writes no file.
C6_EmptyFileListFails ==
    /\ (/\ op = "create_dataframe_from_csv"
        /\ ~file_paths.none
        /\ file_paths.paths = <<>>)
       => (err # "none" /\ df = pre_df)
    /\ (op = "main" /\ indir.exists /\ NoMatch(args.filter_pattern))
       => /\ err # "none"
          /\ stage # "partition"
          /\ written = {}
          /\ fs = pre_fs

C6_Witness ==
    /\ op = "main"
    /\ indir.exists
    /\ Len(indir.entries) >= 1
    /\ NoMatch(args.filter_pattern)
    /\ err = "ValueError"
    /\ stage = "load"

\* C7: get_file_paths returns a sequence for a directory that exists, fails
\* for one that does not, and never returns anything but a sequence.
C7_FilePathsIsSequenceOrFails ==
    op = "get_file_paths" =>
        /\ indir.exists => (err = "none" /\ ~file_paths.none)
        /\ ~indir.exists => err # "none"
        /\ err = "none" => ~file_paths.none

\* C8: every file a partition call writes has the columns of the table
\* passed in, and every data line of it is the text of a row of that table.
C8_RowsWrittenAsPassed ==
    (IsPartitionCall /\ err = "none") =>
        \A f \in written :
            /\ fs[f][1] = HeaderLine(pre_df.cols)
            /\ \A k \in 2..Len(fs[f]) :
                  \E i \in 1..Len(pre_df.rows) :
                      fs[f][k] = RowLine(pre_df.rows[i], pre_df.cols)

\* The distinct years, and months, of the table passed in; NaT is one value.
StampOf(i) == ToDatetime(pre_df.rows[i][args.time_dimension])
YearsObserved ==
    {IF StampOf(i).nat THEN -1 ELSE StampOf(i).year : i \in 1..Len(pre_df.rows)}
MonthsObserved ==
    {IF StampOf(i).nat THEN -1 ELSE StampOf(i).month : i \in 1..Len(pre_df.rows)}

\* C9: a partition call that completes writes as many files as there are
\* distinct years times distinct months, and the file of a combination no
\* row has holds the header line alone.
C9_OneFilePerCombination ==
    (IsPartitionCall /\ err = "none") =>
        /\ Cardinality(written) = Cardinality(YearsObserved) * Cardinality(MonthsObserved)
        /\ written \subseteq DOMAIN fs
        /\ \A f \in written :
              (\A i \in 1..Len(df.rows) : FileOfRow(i) # f)
              => fs[f] = <<HeaderLine(pre_df.cols)>>

\* Two years and two months that meet in two of the four combinations.
C9_Witness ==
    /\ IsPartitionCall
    /\ err = "none"
    /\ Cardinality(written) = 4
    /\ Cardinality({f \in written : Len(fs[f]) = 1}) = 2

\* C10: a partition call leaves the caller's table as it was.
C10_CallerTableUnchanged ==
    IsPartitionCall => df = pre_df

====
